---- MODULE Spec2Model ----
(***************************************************************************)
(* reglex: a lexer generator (src/reglex.c) and the runtime it splices     *)
(* into every generated lexer (src/lexer_template/template.c).             *)
(*                                                                         *)
(* Five specifications share the variables:                                *)
(*   Spec     the generated lexer at run time: reglex_parse_token,         *)
(*            reglex_next, reglex_accept, the reject routine, the user     *)
(*            action and reglex_reset_to_checkpoint, driven by a caller    *)
(*            that calls reglex_parse_token or reglex_parse;               *)
(*   SpecGen  the generator's driver loop in main: one parser block per    *)
(*            iteration, then the runtime template;                        *)
(*   SpecDefs the table of regular definitions: consume_reg_defs and       *)
(*            get_definition, definition by definition;                    *)
(*   SpecRead the spec reader byte by byte: consume_next, undo_char and    *)
(*            the functions of main that read the input file;              *)
(*   SpecCache the draft runtime (src/lexer_template.c): next and push on  *)
(*            the char_cache ring buffer.                                  *)
(***************************************************************************)
EXTENDS Integers, Sequences, FiniteSets, TLC

\* ------------------------------------------------------------------ bounds
\* Longest input stream of the generated lexer.
MaxLen == 3
\* Most parser blocks in a rules section read by the generator.
MaxBlocks == 3

\* ------------------------------------------------------- program constants
\* <stdio.h> EOF, the value fgetc returns at end of stream.
EOF == -1
\* '\n'
NL == 10
\* reglex_parse_result while no terminal result has been reported.
Running == -1
\* reglex_checkpoint_tag when no accept happened since the last reset.
NoTag == -1

\* The bytes an input stream is made of: 'a', 'b', '\n' and the byte 0xFF.
Alphabet == {97, 98, NL, 255}

\* ------------------------------------------------------------ regex ASTs
\* ast_t of the regex library: character set, concatenation, alternation,
\* closures.
Set(cs) == [k |-> "set", cs |-> cs]
Cat(l, r) == [k |-> "cat", l |-> l, r |-> r]
Alt(l, r) == [k |-> "alt", l |-> l, r |-> r]
Star(a) == [k |-> "star", a |-> a]
Plus(a) == [k |-> "plus", a |-> a]
Opt(a) == [k |-> "opt", a |-> a]

\* The words of at most n bytes made of a word of A followed by one of B.
CatLang(A, B, n) ==
  {p[1] \o p[2] : p \in {q \in A \X B : Len(q[1]) + Len(q[2]) <= n}}

RECURSIVE StarLang(_, _, _, _)
\* The words of at most n bytes made of zero or more words of A (i rounds).
StarLang(A, acc, n, i) ==
  IF i = 0 THEN acc
  ELSE StarLang(A, acc \cup CatLang(acc, A, n), n, i - 1)

RECURSIVE RegexLang(_, _)
\* The words of at most n bytes the regex ast accepts.
RegexLang(ast, n) ==
  CASE ast.k = "set" -> IF n >= 1 THEN {<<ch>> : ch \in ast.cs} ELSE {}
    [] ast.k = "cat" -> CatLang(RegexLang(ast.l, n), RegexLang(ast.r, n), n)
    [] ast.k = "alt" -> RegexLang(ast.l, n) \cup RegexLang(ast.r, n)
    [] ast.k = "star" -> StarLang(RegexLang(ast.a, n), {<<>>}, n, n)
    [] ast.k = "plus" ->
         CatLang(RegexLang(ast.a, n),
                 StarLang(RegexLang(ast.a, n), {<<>>}, n, n), n)
    [] ast.k = "opt" -> RegexLang(ast.a, n) \cup {<<>>}

\* Words longer than any lexeme a stream of MaxLen bytes can hold are never
\* matched in full, so the languages are cut one byte above MaxLen.
LangLen == MaxLen + 1

\* ------------------------------------------------- the generator's lists
\* A rule as written in the rules section: regex %{ action %}.  The action
\* text is opaque to the generator; the model keeps the rule's position in
\* the source (block, k) and the one thing an action does to the runtime: an
\* optional call of reglex_switch_parser(sw).
Rule(tok, blk, k, sw) ==
  [token |-> tok, action |-> [blk |-> blk, k |-> k, sw |-> sw]]

RECURSIVE consume_token_actions(_, _)
\* The token_action_list built from the first k rules of a block: every rule
\* is linked in front of the list and takes the next tag.
consume_token_actions(rules, k) ==
  IF k = 0 THEN <<>>
  ELSE <<[token |-> rules[k].token, action |-> rules[k].action, tag |-> k - 1]>>
         \o consume_token_actions(rules, k - 1)

RECURSIVE to_ast_list_from(_, _, _)
to_ast_list_from(tal, i, acc) ==
  IF i > Len(tal) THEN acc
  ELSE to_ast_list_from(tal, i + 1, <<tal[i].token>> \o acc)

\* A to_ast_list that appended instead of linking in front.
to_ast_list_appending(tal) == [i \in 1..Len(tal) |-> tal[i].token]
\* Walks the token_action_list from its head and links every token's AST in
\* front of the new list.
to_ast_list(tal) == to_ast_list_from(tal, 1, <<>>)

\* The cases print_token_actions writes into a reject switch, in list order.
print_token_actions(tal) ==
  [i \in 1..Len(tal) |-> [tag |-> tal[i].tag, action |-> tal[i].action]]

\* "Ensure each parser has a unique name"
unique_name_of(is_named, name, parser_idx) ==
  IF is_named THEN name \o "_named" ELSE "unnamed_" \o ToString(parser_idx)

\* A loop that marked the block after the first one as the default.
new_parser_spec_default_second(block, parser_idx) ==
  LET tal == consume_token_actions(block.rules, Len(block.rules))
      named == block.marker # ""
  IN [tal |-> tal,
      ast_list |-> to_ast_list(tal),
      name |-> block.marker,
      unique_name |-> unique_name_of(named, block.marker, parser_idx),
      is_default |-> (parser_idx = 1),
      is_named |-> named,
      idx |-> parser_idx]
\* One iteration of main's do-while without the emission: the parser_spec of
\* the block read as the parser_idx-th one.
new_parser_spec(block, parser_idx) ==
  LET tal == consume_token_actions(block.rules, Len(block.rules))
      named == block.marker # ""
  IN [tal |-> tal,
      ast_list |-> to_ast_list(tal),
      name |-> block.marker,
      unique_name |-> unique_name_of(named, block.marker, parser_idx),
      is_default |-> (parser_idx = 0),
      is_named |-> named,
      idx |-> parser_idx]

RECURSIVE main_specs(_, _)
\* The specs list after the first n blocks: every new spec is linked in front.
main_specs(blocks, n) ==
  IF n = 0 THEN <<>>
  ELSE <<new_parser_spec(blocks[n], n - 1)>> \o main_specs(blocks, n - 1)

\* get_unique_default_name: the first spec of the list with is_default set
\* ("" stands for the internal error).
get_unique_default_name(specs) ==
  IF \E i \in 1..Len(specs) : specs[i].is_default
  THEN specs[CHOOSE i \in 1..Len(specs) :
               /\ specs[i].is_default
               /\ \A j \in 1..(i - 1) : ~specs[j].is_default].unique_name
  ELSE ""

\* A switch chain that compared parser_name with the unique names.
reglex_switch_parser_unique(specs, parser_name, cur) ==
  IF \E i \in 1..Len(specs) : specs[i].unique_name = parser_name
  THEN parser_name
  ELSE cur
\* The if / else-if chain print_parser_switching writes: the first named
\* spec of the list whose name equals parser_name selects its matcher; no
\* branch leaves the pointer as it is.
reglex_switch_parser(specs, parser_name, cur) ==
  IF \E i \in 1..Len(specs) : specs[i].is_named /\ specs[i].name = parser_name
  THEN specs[CHOOSE i \in 1..Len(specs) :
               /\ specs[i].is_named /\ specs[i].name = parser_name
               /\ \A j \in 1..(i - 1) :
                    ~(specs[j].is_named /\ specs[j].name = parser_name)].unique_name
  ELSE cur

\* --------------------------------------- the automaton of a parser block
\* convert_ast_list_to_automaton, determinize and minimize: the k-th AST of
\* the list (k = 0, 1, ...) accepts with end_tag k.  The automaton is kept as
\* the language of every rule and the set of their prefixes; a state of the
\* minimal DFA is identified by the bytes that led to it.
automaton_of(ast_list) ==
  LET langs == [k \in 1..Len(ast_list) |-> RegexLang(ast_list[k], LangLen)]
      words == UNION {langs[k] : k \in 1..Len(ast_list)}
  IN [langs |-> langs,
      prefixes |-> UNION {{SubSeq(w, 1, n) : n \in 0..Len(w)} : w \in words}]

\* end_tag of the state reached on word w: the smallest tag among the rules
\* that accept w, -1 for a state that accepts nothing.
end_tag(aut, w) ==
  LET hits == {k \in 1..Len(aut.langs) : w \in aut.langs[k]}
  IN IF hits = {} THEN -1
     ELSE (CHOOSE k \in hits : \A j \in hits : k <= j) - 1

\* The state reached on w has a transition on the value ch returned by next.
has_transition(aut, w, ch) == Append(w, ch) \in aut.prefixes

\* ------------------------------------------------- the lexers under test
ReA == Set({97})
ReB == Set({98})
ReNl == Set({NL})
ReHi == Set({255})

\* ab | [ab]+ | [\n\xff] : a keyword and the identifiers that contain it.
SecKeyword ==
  <<[marker |-> "",
     rules |-> <<Rule(Cat(ReA, ReB), 0, 0, ""),
                 Rule(Plus(Set({97, 98})), 0, 1, ""),
                 Rule(Set({NL, 255}), 0, 2, "")>>]>>

\* a | ab\xffa | b\xff? | [\n\xff] : the matcher reads up to two bytes past
\* the last accept before it gets stuck.
SecOverread ==
  <<[marker |-> "",
     rules |-> <<Rule(ReA, 0, 0, ""),
                 Rule(Cat(ReA, Cat(ReB, Cat(ReHi, ReA))), 0, 1, ""),
                 Rule(Cat(ReB, Opt(ReHi)), 0, 2, ""),
                 Rule(Set({NL, 255}), 0, 3, "")>>]>>

\* Two named parsers whose actions switch back and forth.
SecTwoNamed ==
  <<[marker |-> "code",
     rules |-> <<Rule(ReA, 0, 0, "str"),
                 Rule(Cat(ReA, Cat(ReB, Cat(ReB, ReNl))), 0, 1, ""),
                 Rule(ReNl, 0, 2, "")>>],
    [marker |-> "str",
     rules |-> <<Rule(Plus(ReB), 1, 0, ""),
                 Rule(ReHi, 1, 1, "code"),
                 Rule(ReNl, 1, 2, "nope"),
                 Rule(Cat(ReB, ReA), 1, 3, "code")>>]>>

\* An unnamed default parser and a named one.
SecDefaultAndNamed ==
  <<[marker |-> "",
     rules |-> <<Rule(Set({97, 98}), 0, 0, "str"),
                 Rule(Cat(ReNl, Opt(Cat(ReNl, ReB))), 0, 1, "")>>],
    [marker |-> "str",
     rules |-> <<Rule(ReA, 1, 0, ""),
                 Rule(Plus(Set({97, NL})), 1, 1, ""),
                 Rule(Set({98, 255}), 1, 2, "")>>]>>

Sections == <<SecKeyword, SecOverread, SecTwoNamed, SecDefaultAndNamed>>

\* What the generator hands to the generated lexer for every section: the
\* specs list of main and the automaton of every spec.
SpecsOf == [s \in 1..Len(Sections) |-> main_specs(Sections[s], Len(Sections[s]))]
AutomatonOf ==
  [s \in 1..Len(Sections) |->
     [i \in 1..Len(SpecsOf[s]) |-> automaton_of(SpecsOf[s][i].ast_list)]]

\* ------------------------------------------------------------- the state
VARIABLES
  \* the generated lexer's environment
  section,                    \* which of Sections the lexer was generated from
  input,                      \* the bytes of the stream reglex_is
  char_signed,                \* whether plain char is signed in this build
  stream_pos,                 \* bytes fgetc has delivered so far
  \* template.c's statics
  reglex_checkpoint_tag,
  reglex_lexem_str,
  reglex_read_ahead,
  reglex_read_ahead_ptr,
  reglex_curr_loc,
  reglex_checkpoint_loc,
  reglex_lexem_start_loc,
  reglex_just_started_token,
  reglex_parse_result,
  reglex_token_parser_fn,     \* unique_name of the matcher the pointer holds
  \* the call in progress
  pc,                         \* where the lexer's control is
  matcher_fn,                 \* unique_name of the matcher that is running
  dfa_state,                  \* the bytes that led to the matcher's state
  c,                          \* what reglex_next returned last
  in_parse,                   \* reglex_parse is on the stack
  hist,                       \* what an observer of the run has seen
  \* the generator's driver (main)
  gen_pc,
  gen_blocks,                 \* the rules section, block by block
  gen_read,                   \* the blocks consume_token_actions has read
  specs,
  parser_idx,
  out_file,
  diag,
  \* the regular definitions read by consume_reg_defs
  defs,                       \* the reg_def_list_t list, head first
  def_pc,                     \* where the reading of the definitions is
  def_hist,                   \* the get_definition calls an observer has seen
  \* the spec reader: the input file and reglex.c's statics
  rd_input,                   \* the bytes of the input file
  rd_pos,                     \* bytes get_next_input_char has delivered
  next_char,
  col,
  ln,
  just_consumed_nl,
  has_undo_char,
  undo_char_,
  rd_returned,                \* the consume_next and undo_char calls, in order
  rd_pc,                      \* where the reader's control is
  rd_stack,                   \* where the functions on the stack return to
  rd_ret,                     \* what the last function returned
  rd_local,                   \* the locals of the functions on the stack
  rd_out,                     \* the bytes the reader wrote to out_file
  rd_diag,                    \* the message of reject
  rd_hist,                    \* what an observer of the reader has seen
  \* the draft runtime (lexer_template.c)
  cache_pc,                   \* whether the draft runtime is running
  cache_stdin,                \* the bytes of stdin
  cache_read,                 \* bytes fgetc has delivered
  char_cache,
  cache_mem,                  \* the ints stored where char_cache.data points
  cache_pushed                \* the values of the push calls that returned

rt_vars ==
  <<section, input, char_signed, stream_pos, reglex_checkpoint_tag,
    reglex_lexem_str, reglex_read_ahead, reglex_read_ahead_ptr,
    reglex_curr_loc, reglex_checkpoint_loc, reglex_lexem_start_loc,
    reglex_just_started_token, reglex_parse_result, reglex_token_parser_fn,
    pc, matcher_fn, dfa_state, c, in_parse, hist>>
gen_vars == <<gen_pc, gen_blocks, gen_read, specs, parser_idx, out_file, diag>>
def_vars == <<defs, def_pc, def_hist>>
\* The variables of the spec reader.
rd_vars ==
  <<rd_input, rd_pos, next_char, col, ln, just_consumed_nl, has_undo_char,
    undo_char_, rd_returned, rd_pc, rd_stack, rd_ret, rd_local, rd_out,
    rd_diag, rd_hist>>
\* The variables of the draft runtime.
cache_vars ==
  <<cache_pc, cache_stdin, cache_read, char_cache, cache_mem, cache_pushed>>
src_vars == <<def_vars, rd_vars, cache_vars>>
vars == <<rt_vars, gen_vars, src_vars>>

\* Calls of reglex_parse_token a caller makes on one stream.
MaxCalls == MaxLen + 3

Inputs == UNION {[1..n -> Alphabet] : n \in 0..MaxLen}

\* ------------------------------------------------------ template.c, pure
\* The value a byte read by fgetc has once it is stored in a char: string_t
\* holds plain char, whose signedness the build decides, and reglex_next
\* hands a buffered char back as an int, so a byte >= 0x80 comes back negative
\* where char is signed (0xFF comes back as -1, the value of EOF).
to_char(v) == IF char_signed /\ v >= 128 THEN v - 256 ELSE v

\* The bytes a string of chars holds in memory.
bytes_of(str) == [i \in 1..Len(str) |-> str[i] % 256]

reglex_increment_loc(loc, ch) ==
  LET l1 == IF loc.eol = 1
            THEN [loc EXCEPT !.eol = 0, !.col = 0, !.ln = @ + 1]
            ELSE loc
      l2 == IF ch = NL THEN [l1 EXCEPT !.eol = 1] ELSE l1
  IN [l2 EXCEPT !.col = @ + 1]

\* The default branch of a reject switch.
reject_default_swapped(length) == IF length = 0 THEN 1 ELSE 0
reject_default(length) == IF length = 0 THEN 0 ELSE 1

\* ------------------------------------------------- the generated program
\* The parser_spec list the generator built for this lexer, the spec a
\* matcher or reject function was emitted from, and its automaton.
Specs == SpecsOf[section]
spec_index(fn) == CHOOSE i \in 1..Len(Specs) : Specs[i].unique_name = fn
spec_of(fn) == Specs[spec_index(fn)]
matcher_automaton(fn) == AutomatonOf[section][spec_index(fn)]

\* The case of the running reject function that `switch (tag)` jumps to, 0
\* when no case carries the tag.
case_of(fn, tag) ==
  LET cases == print_token_actions(spec_of(fn).tal)
      hits == {i \in 1..Len(cases) : cases[i].tag = tag}
  IN IF hits = {} THEN 0 ELSE CHOOSE i \in hits : \A j \in hits : i <= j
action_of(fn, tag) == print_token_actions(spec_of(fn).tal)[case_of(fn, tag)].action

\* ----------------------------------------------------------------- Init
NoLoc == [ln |-> 0, col |-> 0, eol |-> 0]
StartLoc == [ln |-> 1, col |-> 0, eol |-> 0]

HistInit ==
  [tokens |-> <<>>,          \* the actions run: tag, lexeme, rule, location
   call_locs |-> <<>>,       \* (reglex_ln(), reglex_col()) of every call
   n_calls |-> 0,            \* calls of reglex_parse_token so far
   call_actions |-> 0,       \* actions run in the current call
   call_results |-> 0,       \* terminal results set in the current call
   returned |-> <<>>,        \* what reglex_next returned in the current call
   accept_at |-> 0,          \* bytes read in this call at its last accept
   accept_loc |-> NoLoc,     \* reglex_curr_loc at the last accept
   accepts |-> 0,            \* accepts in the current call
   expect_blk |-> 0,         \* the source block that should be matching
   pending |-> <<>>,         \* the lookahead buffer when the last action ended
   last_reject |-> [tag |-> NoTag, len |-> 0],
   parse_rets |-> <<>>,      \* what reglex_parse returned, call by call
   calls_in_parse |-> 0,     \* calls the running reglex_parse has made
   ends |-> <<>>]            \* the statics as every reject function left them

\* NULL, the pointer get_definition returns for a name without definition.
NULL == 0

DefOff ==
  /\ defs = <<>>
  /\ def_pc = "off"
  /\ def_hist = {}

LocalsInit ==
  [name |-> <<>>, action |-> <<>>, regex |-> <<>>, expect_eof |-> FALSE,
   flags |-> 0, tag_ctr |-> 0, found_name |-> 0, parser_idx |-> 0]

RdHistInit ==
  [action_calls |-> <<>>,    \* consume_action: where called, what returned
   rules |-> <<>>,           \* the token actions linked, block by block
   trail_at |-> 0,           \* where the trailing host code starts
   helpers |-> <<>>]         \* try_consume_delimiter, next_is_parser_name:
                             \* what was peeked at the call and the return

RdOff ==
  /\ rd_input = <<>>
  /\ rd_pos = 0
  /\ next_char = EOF
  /\ col = 0
  /\ ln = 1
  /\ just_consumed_nl = FALSE
  /\ has_undo_char = FALSE
  /\ undo_char_ = 0
  /\ rd_returned = <<>>
  /\ rd_pc = "off"
  /\ rd_stack = <<>>
  /\ rd_ret = 0
  /\ rd_local = LocalsInit
  /\ rd_out = <<>>
  /\ rd_diag = [ln |-> 0, col |-> 0, err |-> ""]
  /\ rd_hist = RdHistInit

\* char_cache_t char_cache = {0};
char_cache_zero ==
  [data |-> NULL, start |-> 0, end |-> 0, size |-> 0, ptr |-> 0,
   remaining |-> 0, cap |-> 0]

CacheOff ==
  /\ cache_pc = "off"
  /\ cache_stdin = <<>>
  /\ cache_read = 0
  /\ char_cache = char_cache_zero
  /\ cache_mem = [i \in {} |-> 0]
  /\ cache_pushed = <<>>

SrcOff == DefOff /\ RdOff /\ CacheOff

GenOff ==
  /\ gen_pc = "off"
  /\ gen_blocks = <<>>
  /\ gen_read = <<>>
  /\ specs = <<>>
  /\ parser_idx = 0
  /\ out_file = <<>>
  /\ diag = ""

Init ==
  /\ section \in 1..Len(Sections)
  /\ input \in Inputs
  /\ char_signed \in BOOLEAN
  /\ stream_pos = 0
  /\ reglex_checkpoint_tag = NoTag
  /\ reglex_lexem_str = <<>>
  /\ reglex_read_ahead = <<>>
  /\ reglex_read_ahead_ptr = 0
  /\ reglex_curr_loc = StartLoc
  /\ reglex_checkpoint_loc = NoLoc
  /\ reglex_lexem_start_loc = NoLoc
  /\ reglex_just_started_token = 0
  /\ reglex_parse_result = Running
  /\ reglex_token_parser_fn = get_unique_default_name(SpecsOf[section])
  /\ pc = "idle"
  /\ matcher_fn = ""
  /\ dfa_state = <<>>
  /\ c = EOF
  /\ in_parse = FALSE
  /\ hist = HistInit
  /\ GenOff
  /\ SrcOff

\* -------------------------------------------------- template.c, actions
\* reglex_accept that appended to the lexeme without shifting the buffer.
reglex_accept_no_shift(tag) ==
  LET chars_to_accept == Len(reglex_read_ahead) - reglex_read_ahead_ptr
  IN /\ reglex_checkpoint_tag' = tag
     /\ reglex_checkpoint_loc' = reglex_curr_loc
     /\ reglex_lexem_str' =
          reglex_lexem_str \o SubSeq(reglex_read_ahead, 1, chars_to_accept)
     /\ UNCHANGED reglex_read_ahead
\* reglex_accept that kept the first tag of the call.
reglex_accept_first_tag(tag) ==
  LET chars_to_accept == Len(reglex_read_ahead) - reglex_read_ahead_ptr
  IN /\ reglex_checkpoint_tag' =
          IF reglex_checkpoint_tag = NoTag THEN tag ELSE reglex_checkpoint_tag
     /\ reglex_checkpoint_loc' = reglex_curr_loc
     /\ reglex_lexem_str' =
          reglex_lexem_str \o SubSeq(reglex_read_ahead, 1, chars_to_accept)
     /\ reglex_read_ahead' =
          SubSeq(reglex_read_ahead, chars_to_accept + 1, Len(reglex_read_ahead))
reglex_accept(tag) ==
  LET chars_to_accept == Len(reglex_read_ahead) - reglex_read_ahead_ptr
  IN /\ reglex_checkpoint_tag' = tag
     /\ reglex_checkpoint_loc' = reglex_curr_loc
     /\ reglex_lexem_str' =
          reglex_lexem_str \o SubSeq(reglex_read_ahead, 1, chars_to_accept)
     /\ reglex_read_ahead' =
          SubSeq(reglex_read_ahead, chars_to_accept + 1, Len(reglex_read_ahead))

\* reglex_reset_to_checkpoint that left the cursor where the matcher stopped.
reglex_reset_to_checkpoint_keep_ptr ==
  /\ reglex_checkpoint_tag' = NoTag
  /\ reglex_curr_loc' = reglex_checkpoint_loc
  /\ reglex_lexem_str' = <<>>
  /\ reglex_read_ahead_ptr' = reglex_read_ahead_ptr
\* reglex_reset_to_checkpoint that left the current location where the
\* matcher stopped.
reglex_reset_to_checkpoint_keep_loc ==
  /\ reglex_checkpoint_tag' = NoTag
  /\ reglex_curr_loc' = reglex_curr_loc
  /\ reglex_lexem_str' = <<>>
  /\ reglex_read_ahead_ptr' = Len(reglex_read_ahead)
reglex_reset_to_checkpoint ==
  /\ reglex_checkpoint_tag' = NoTag
  /\ reglex_curr_loc' = reglex_checkpoint_loc
  /\ reglex_lexem_str' = <<>>
  /\ reglex_read_ahead_ptr' = Len(reglex_read_ahead)

\* fgetc(reglex_is) on a stream whose end of file is sticky.
fgetc == IF stream_pos < Len(input) THEN input[stream_pos + 1] ELSE EOF

\* reglex_next: serves the lookahead buffer from its cursor, else reads the
\* stream and remembers the byte; counts the location; the first call of a
\* token records the token's start.
reglex_next ==
  LET replay == reglex_read_ahead_ptr > 0
      ch == IF replay
            THEN reglex_read_ahead[Len(reglex_read_ahead) - reglex_read_ahead_ptr + 1]
            ELSE fgetc
      loc == reglex_increment_loc(reglex_curr_loc, ch)
  IN /\ c' = ch
     /\ IF replay
        THEN /\ reglex_read_ahead_ptr' = reglex_read_ahead_ptr - 1
             /\ UNCHANGED <<reglex_read_ahead, stream_pos>>
        ELSE /\ UNCHANGED reglex_read_ahead_ptr
             /\ IF ch # EOF
                THEN /\ reglex_read_ahead' = Append(reglex_read_ahead, to_char(ch))
                     /\ stream_pos' = stream_pos + 1
                ELSE UNCHANGED <<reglex_read_ahead, stream_pos>>
     /\ reglex_curr_loc' = loc
     /\ IF reglex_just_started_token = 1
        THEN /\ reglex_just_started_token' = 0
             /\ reglex_lexem_start_loc' = loc
             /\ hist' = [hist EXCEPT !.returned = Append(@, ch),
                                     !.call_locs = Append(@, <<loc.ln, loc.col>>)]
        ELSE /\ UNCHANGED <<reglex_just_started_token, reglex_lexem_start_loc>>
             /\ hist' = [hist EXCEPT !.returned = Append(@, ch)]

\* reglex_parse_token up to the call through reglex_token_parser_fn.
reglex_parse_token_enter ==
  /\ hist.n_calls < MaxCalls
  /\ reglex_just_started_token' = 1
  /\ matcher_fn' = reglex_token_parser_fn
  /\ dfa_state' = <<>>
  /\ pc' = "next"
  /\ hist' = [hist EXCEPT !.n_calls = @ + 1, !.call_actions = 0,
                          !.call_results = 0, !.returned = <<>>,
                          !.accept_at = 0, !.accepts = 0,
                          !.calls_in_parse = IF in_parse THEN @ + 1 ELSE 1]
  /\ UNCHANGED <<section, input, char_signed, stream_pos, reglex_checkpoint_tag,
                 reglex_lexem_str, reglex_read_ahead, reglex_read_ahead_ptr,
                 reglex_curr_loc, reglex_checkpoint_loc, reglex_lexem_start_loc,
                 reglex_parse_result, reglex_token_parser_fn, c>>

\* The caller drives the lexer through reglex_parse_token and reglex_parse,
\* in any order and also after a terminal result; sub-lexers are switched by
\* the actions.
\* The caller calls reglex_parse_token.
CallParseToken ==
  /\ pc = "idle"
  /\ reglex_parse_token_enter
  /\ UNCHANGED in_parse
  /\ UNCHANGED <<gen_vars, src_vars>>

\* The caller calls reglex_parse, whose do-while calls reglex_parse_token.
CallParse ==
  /\ pc = "idle"
  /\ reglex_parse_token_enter
  /\ in_parse' = TRUE
  /\ UNCHANGED <<gen_vars, src_vars>>

\* A state of the generated matcher: c = next(); follow the transition on c
\* or call the reject function.
MatcherNext ==
  /\ pc = "next"
  /\ reglex_next
  /\ LET aut == matcher_automaton(matcher_fn)
     IN IF has_transition(aut, dfa_state, c')
        THEN /\ dfa_state' = Append(dfa_state, c')
             /\ pc' = IF end_tag(aut, dfa_state') # -1 THEN "accept" ELSE "next"
        ELSE /\ pc' = "reject"
             /\ UNCHANGED dfa_state
  /\ UNCHANGED <<section, input, char_signed, reglex_checkpoint_tag,
                 reglex_lexem_str, reglex_checkpoint_loc, reglex_parse_result,
                 reglex_token_parser_fn, matcher_fn, in_parse>>
  /\ UNCHANGED <<gen_vars, src_vars>>

\* An accepting state of the generated matcher calls accept(end_tag) before
\* it reads on.
MatcherAccept ==
  /\ pc = "accept"
  /\ reglex_accept(end_tag(matcher_automaton(matcher_fn), dfa_state))
  /\ pc' = "next"
  /\ hist' = [hist EXCEPT !.accept_at = Len(hist.returned),
                          !.accept_loc = reglex_curr_loc,
                          !.accepts = @ + 1]
  /\ UNCHANGED <<section, input, char_signed, stream_pos, reglex_read_ahead_ptr,
                 reglex_curr_loc, reglex_lexem_start_loc,
                 reglex_just_started_token, reglex_parse_result,
                 reglex_token_parser_fn, matcher_fn, dfa_state, c, in_parse>>
  /\ UNCHANGED <<gen_vars, src_vars>>

\* reglex_reject_<unique_name>: switch (reglex_checkpoint_tag).
RejectSwitch ==
  /\ pc = "reject"
  /\ pc' = IF case_of(matcher_fn, reglex_checkpoint_tag) # 0
           THEN "action" ELSE "default"
  /\ hist' = [hist EXCEPT !.last_reject =
                [tag |-> reglex_checkpoint_tag, len |-> Len(reglex_read_ahead)]]
  /\ UNCHANGED <<section, input, char_signed, stream_pos, reglex_checkpoint_tag,
                 reglex_lexem_str, reglex_read_ahead, reglex_read_ahead_ptr,
                 reglex_curr_loc, reglex_checkpoint_loc, reglex_lexem_start_loc,
                 reglex_just_started_token, reglex_parse_result,
                 reglex_token_parser_fn, matcher_fn, dfa_state, c, in_parse>>
  /\ UNCHANGED <<gen_vars, src_vars>>

\* A case whose break is missing falls through to the default branch.
after_case_fallthrough == "default"
\* `break;` after the action leaves the switch.
after_case == "reset"

\* case <tag>: the user's action, which may call reglex_switch_parser.
UserAction ==
  /\ pc = "action"
  /\ LET act == action_of(matcher_fn, reglex_checkpoint_tag)
         fn == IF act.sw # ""
               THEN reglex_switch_parser(Specs, act.sw, reglex_token_parser_fn)
               ELSE reglex_token_parser_fn
     IN /\ reglex_token_parser_fn' = fn
        /\ hist' = [hist EXCEPT
             !.tokens = Append(@, [tag |-> reglex_checkpoint_tag,
                                   lexeme |-> bytes_of(reglex_lexem_str),
                                   fn |-> matcher_fn,
                                   blk |-> act.blk, k |-> act.k,
                                   ln |-> reglex_lexem_start_loc.ln,
                                   col |-> reglex_lexem_start_loc.col]),
             !.call_actions = @ + 1,
             !.pending = reglex_read_ahead,
             !.expect_blk =
               IF \E b \in 1..Len(Sections[section]) :
                    act.sw # "" /\ Sections[section][b].marker = act.sw
               THEN (CHOOSE b \in 1..Len(Sections[section]) :
                       Sections[section][b].marker = act.sw) - 1
               ELSE @]
  /\ pc' = after_case
  /\ UNCHANGED <<section, input, char_signed, stream_pos, reglex_checkpoint_tag,
                 reglex_lexem_str, reglex_read_ahead, reglex_read_ahead_ptr,
                 reglex_curr_loc, reglex_checkpoint_loc, reglex_lexem_start_loc,
                 reglex_just_started_token, reglex_parse_result,
                 matcher_fn, dfa_state, c, in_parse>>
  /\ UNCHANGED <<gen_vars, src_vars>>

\* default: of the reject switch sets the terminal result.
RejectDefault ==
  /\ pc = "default"
  /\ reglex_parse_result' = reject_default(Len(reglex_read_ahead))
  /\ pc' = "reset"
  /\ hist' = [hist EXCEPT !.call_results = @ + 1]
  /\ UNCHANGED <<section, input, char_signed, stream_pos, reglex_checkpoint_tag,
                 reglex_lexem_str, reglex_read_ahead, reglex_read_ahead_ptr,
                 reglex_curr_loc, reglex_checkpoint_loc, reglex_lexem_start_loc,
                 reglex_just_started_token, reglex_token_parser_fn,
                 matcher_fn, dfa_state, c, in_parse>>
  /\ UNCHANGED <<gen_vars, src_vars>>

\* template.c's statics, as a caller could observe them between two calls.
Statics ==
  [checkpoint_tag |-> reglex_checkpoint_tag,
   lexem_str |-> reglex_lexem_str,
   read_ahead |-> reglex_read_ahead,
   read_ahead_ptr |-> reglex_read_ahead_ptr,
   curr_loc |-> reglex_curr_loc,
   checkpoint_loc |-> reglex_checkpoint_loc,
   lexem_start_loc |-> reglex_lexem_start_loc,
   just_started_token |-> reglex_just_started_token,
   parse_result |-> reglex_parse_result,
   token_parser_fn |-> reglex_token_parser_fn,
   stream_pos |-> stream_pos]

\* The reject function ends with reglex_reset_to_checkpoint().
ResetToCheckpoint ==
  /\ pc = "reset"
  /\ reglex_reset_to_checkpoint
  /\ pc' = "return"
  /\ UNCHANGED <<section, input, char_signed, stream_pos, reglex_read_ahead,
                 reglex_checkpoint_loc, reglex_lexem_start_loc,
                 reglex_just_started_token, reglex_parse_result,
                 reglex_token_parser_fn, matcher_fn, dfa_state, c, in_parse>>
  /\ hist' = [hist EXCEPT !.ends =
                Append(@, [statics |-> Statics', fn |-> matcher_fn,
                           tokens |-> Len(hist.tokens)])]
  /\ UNCHANGED <<gen_vars, src_vars>>

\* reglex_parse_token returns reglex_parse_result to a caller other than
\* reglex_parse.
ParseTokenReturn ==
  /\ pc = "return"
  /\ ~in_parse
  /\ pc' = "idle"
  /\ UNCHANGED <<section, input, char_signed, stream_pos, reglex_checkpoint_tag,
                 reglex_lexem_str, reglex_read_ahead, reglex_read_ahead_ptr,
                 reglex_curr_loc, reglex_checkpoint_loc, reglex_lexem_start_loc,
                 reglex_just_started_token, reglex_parse_result,
                 reglex_token_parser_fn, matcher_fn, dfa_state, c, in_parse,
                 hist>>
  /\ UNCHANGED <<gen_vars, src_vars>>

\* reglex_parse that went on until the end of the input was reported.
ParseLoop_until_end ==
  /\ pc = "return"
  /\ in_parse
  /\ reglex_parse_result # 0
  /\ reglex_parse_token_enter
  /\ UNCHANGED in_parse
  /\ UNCHANGED <<gen_vars, src_vars>>
\* reglex_parse: while (result == -1) calls reglex_parse_token again.
ParseLoop ==
  /\ pc = "return"
  /\ in_parse
  /\ reglex_parse_result = -1
  /\ reglex_parse_token_enter
  /\ UNCHANGED in_parse
  /\ UNCHANGED <<gen_vars, src_vars>>

\* reglex_parse returns the result of the last reglex_parse_token call.
ParseReturn ==
  /\ pc = "return"
  /\ in_parse
  /\ reglex_parse_result # -1
  /\ in_parse' = FALSE
  /\ pc' = "idle"
  /\ hist' = [hist EXCEPT !.parse_rets =
                Append(@, [ret |-> reglex_parse_result,
                           tag |-> hist.last_reject.tag,
                           len |-> hist.last_reject.len])]
  /\ UNCHANGED <<section, input, char_signed, stream_pos, reglex_checkpoint_tag,
                 reglex_lexem_str, reglex_read_ahead, reglex_read_ahead_ptr,
                 reglex_curr_loc, reglex_checkpoint_loc, reglex_lexem_start_loc,
                 reglex_just_started_token, reglex_parse_result,
                 reglex_token_parser_fn, matcher_fn, dfa_state, c>>
  /\ UNCHANGED <<gen_vars, src_vars>>

Next ==
  \/ CallParseToken
  \/ CallParse
  \/ MatcherNext
  \/ MatcherAccept
  \/ RejectSwitch
  \/ UserAction
  \/ RejectDefault
  \/ ResetToCheckpoint
  \/ ParseTokenReturn
  \/ ParseLoop
  \/ ParseReturn

Spec == Init /\ [][Next]_vars

\* ------------------------------------------------ the generator's driver
ReStarA == Star(ReA)

\* The rule lists a parser block of a generator input is drawn from; two of
\* them hold a regex that accepts the empty string (a*, b?), one has three
\* rules none of which does.
GenRuleLists ==
  {<<>>,
   <<Rule(ReA, 0, 0, "")>>,
   <<Rule(ReStarA, 0, 0, "")>>,
   <<Rule(Plus(ReB), 0, 0, ""), Rule(Opt(ReB), 0, 1, "")>>,
   <<Rule(ReA, 0, 0, ""), Rule(Plus(ReB), 0, 1, ""),
     Rule(Cat(ReA, ReB), 0, 2, "")>>}

\* Only the first block of a rules section can lack a parser marker: every
\* later block starts where next_is_parser_name saw "%{".
GenFirstBlocks ==
  {[marker |-> m, rules |-> r] : m \in {"", "code", "str"}, r \in GenRuleLists}
GenLaterBlocks ==
  {[marker |-> m, rules |-> r] : m \in {"code", "str"}, r \in GenRuleLists}
GenSections ==
  UNION {{<<f>> \o t : f \in GenFirstBlocks, t \in [1..n -> GenLaterBlocks]} :
           n \in 0..(MaxBlocks - 1)}

RtOff ==
  /\ section = 1
  /\ input = <<>>
  /\ char_signed = FALSE
  /\ stream_pos = 0
  /\ reglex_checkpoint_tag = NoTag
  /\ reglex_lexem_str = <<>>
  /\ reglex_read_ahead = <<>>
  /\ reglex_read_ahead_ptr = 0
  /\ reglex_curr_loc = StartLoc
  /\ reglex_checkpoint_loc = NoLoc
  /\ reglex_lexem_start_loc = NoLoc
  /\ reglex_just_started_token = 0
  /\ reglex_parse_result = Running
  /\ reglex_token_parser_fn = ""
  /\ pc = "off"
  /\ matcher_fn = ""
  /\ dfa_state = <<>>
  /\ c = EOF
  /\ in_parse = FALSE
  /\ hist = HistInit

\* main has parsed its arguments and read the first byte.
GenInit ==
  /\ gen_pc = "head"
  /\ gen_blocks \in GenSections
  /\ gen_read = <<>>
  /\ specs = <<>>
  /\ parser_idx = 0
  /\ out_file = <<>>
  /\ diag = ""
  /\ RtOff
  /\ SrcOff

\* main up to the parser loop: consume_c(0) copies the leading host code,
\* consume_instructions reads the flags, consume_reg_defs ends with "\n".
GenHead ==
  /\ gen_pc = "head"
  /\ out_file' = out_file \o <<[kind |-> "host_code", name |-> ""],
                             [kind |-> "newline", name |-> ""]>>
  /\ gen_pc' = "rules"
  /\ UNCHANGED <<gen_blocks, gen_read, specs, parser_idx, diag>>
  /\ UNCHANGED <<rt_vars, src_vars>>

\* The check main makes on the minimal DFA of a block before it prints it.
start_is_accepting(aut) == end_tag(aut, <<>>) # -1

\* One iteration of main's do-while: read a parser block, name it, build its
\* minimal DFA, refuse a DFA whose start state accepts, print the matcher.
GenParserBlock ==
  /\ gen_pc = "rules"
  /\ LET spec == new_parser_spec(Head(gen_blocks), parser_idx)
         mdfa == automaton_of(spec.ast_list)
         more == Len(gen_blocks) > 1
     IN /\ specs' = <<spec>> \o specs
        /\ gen_blocks' = Tail(gen_blocks)
        /\ gen_read' = Append(gen_read, Head(gen_blocks))
        /\ IF start_is_accepting(mdfa)
           THEN /\ diag' = "no token expressions may accept an empty string"
                /\ gen_pc' = "failed"
                /\ UNCHANGED <<out_file, parser_idx>>
           ELSE /\ out_file' =
                     Append(out_file,
                            [kind |-> "matcher",
                             name |-> "reglex_parse_token_" \o spec.unique_name])
                /\ parser_idx' = parser_idx + 1
                /\ gen_pc' = IF more THEN "rules" ELSE "template"
                /\ UNCHANGED diag
  /\ UNCHANGED <<rt_vars, src_vars>>

\* After the loop: the runtime template with the parser switching and the
\* reject functions spliced in, then the trailing host code.
GenTemplate ==
  /\ gen_pc = "template"
  /\ out_file' = out_file \o
       <<[kind |-> "template", name |-> "declarations"],
         [kind |-> "switching", name |-> get_unique_default_name(specs)],
         [kind |-> "template", name |-> "runtime"],
         [kind |-> "reject_functions", name |-> ""],
         [kind |-> "template", name |-> "parse"],
         [kind |-> "host_code", name |-> ""]>>
  /\ gen_pc' = "done"
  /\ UNCHANGED <<gen_blocks, gen_read, specs, parser_idx, diag>>
  /\ UNCHANGED <<rt_vars, src_vars>>

GenNext ==
  \/ GenHead
  \/ GenParserBlock
  \/ GenTemplate

SpecGen == GenInit /\ [][GenNext]_vars

\* ------------------------------------------- the regular definitions
\* Most definitions in a regex-defs segment.
MaxDefs == 3

DefNames == {"x", "y"}

\* A bare identifier in the text of a regex, before it is resolved.
Name(n) == [k |-> "name", name |-> n]
\* The reference node the regex parser builds from what get_definition
\* returned: def is the definition the returned pointer points into.
Reference(n, def) == [k |-> "ref", name |-> n, def |-> def]
\* A regex whose parsing ended in reject.
Unresolved == [k |-> "unresolved"]

\* The regex texts a definition or a rule is drawn from.
RegexTexts ==
  {ReA, ReB} \cup {Name(n) : n \in DefNames}
    \cup {Cat(Name(n), Name(m)) : n \in DefNames, m \in DefNames}
    \cup {Star(Name(n)) : n \in DefNames}

\* get_definition that walked on to the last node with the name.
get_definition_oldest(table, name) ==
  IF \E i \in 1..Len(table) : table[i].name = name
  THEN table[CHOOSE i \in 1..Len(table) :
               /\ table[i].name = name
               /\ \A j \in (i + 1)..Len(table) : table[j].name # name].id
  ELSE NULL
\* get_definition: the first node from the head whose name compares equal;
\* the pointer &list->ast is kept as the id of that node.
get_definition(table, name) ==
  IF \E i \in 1..Len(table) : table[i].name = name
  THEN table[CHOOSE i \in 1..Len(table) :
               /\ table[i].name = name
               /\ \A j \in 1..(i - 1) : table[j].name # name].id
  ELSE NULL

RECURSIVE consume_regex_expr(_, _)
\* The regex parser on a regex text: every identifier is looked up with
\* get_definition while the text is parsed, and a name without definition
\* ends the parsing.
consume_regex_expr(text, table) ==
  CASE text.k = "name" ->
         IF get_definition(table, text.name) = NULL THEN Unresolved
         ELSE Reference(text.name, get_definition(table, text.name))
    [] text.k = "cat" ->
         LET l == consume_regex_expr(text.l, table)
             r == consume_regex_expr(text.r, table)
         IN IF l.k = "unresolved" \/ r.k = "unresolved" THEN Unresolved
            ELSE Cat(l, r)
    [] text.k = "star" ->
         LET a == consume_regex_expr(text.a, table)
         IN IF a.k = "unresolved" THEN Unresolved ELSE Star(a)
    [] OTHER -> text

RECURSIVE names_of(_)
\* The identifiers of a regex text.
names_of(text) ==
  CASE text.k = "name" -> {text.name}
    [] text.k = "cat" -> names_of(text.l) \cup names_of(text.r)
    [] text.k = "star" -> names_of(text.a)
    [] OTHER -> {}

\* The AST stored in the node a get_definition pointer points into.
ast_at(table, def) ==
  table[CHOOSE i \in 1..Len(table) : table[i].id = def].ast

\* What an observer of get_definition sees while a regex text is parsed for
\* the definition `owner` (NULL for a rule): the name, the table's size, the
\* pointer returned and the AST it pointed to.
lookups_of(text, table, owner, owner_name) ==
  {[name |-> n,
    size |-> Len(table),
    def |-> get_definition(table, n),
    ast |-> IF get_definition(table, n) = NULL THEN Unresolved
            ELSE ast_at(table, get_definition(table, n)),
    owner |-> owner,
    owner_name |-> owner_name] : n \in names_of(text)}

\* A loop body that linked the new node into the list before it parsed the
\* regex.
consume_reg_def_name_first(table, name, text) ==
  LET node == [name |-> name, ast |-> Unresolved, id |-> Len(table) + 1]
      ast == consume_regex_expr(text, <<node>> \o table)
  IN IF ast.k = "unresolved" THEN table
     ELSE <<[node EXCEPT !.ast = ast]>> \o table
\* The body of consume_reg_defs' loop after the name: parse the regex, then
\* link a new node in front of the list.
consume_reg_def(table, name, text) ==
  LET ast == consume_regex_expr(text, table)
  IN IF ast.k = "unresolved" THEN table
     ELSE <<[name |-> name, ast |-> ast, id |-> Len(table) + 1]>> \o table

DefInit ==
  /\ defs = <<>>
  /\ def_pc = "defs"
  /\ def_hist = {}
  /\ RtOff
  /\ GenOff
  /\ RdOff
  /\ CacheOff

\* One round of consume_reg_defs' loop: a name and its regex.
ConsumeRegDef ==
  /\ def_pc = "defs"
  /\ Len(defs) < MaxDefs
  /\ \E name \in DefNames, text \in RegexTexts :
       /\ defs' = consume_reg_def(defs, name, text)
       /\ def_hist' = def_hist \cup lookups_of(text, defs, Len(defs) + 1, name)
       /\ def_pc' = IF defs' = defs THEN "failed" ELSE "defs"
  /\ UNCHANGED <<rt_vars, gen_vars, rd_vars, cache_vars>>

\* try_consume_delimiter ends the regex-defs segment.
ConsumeRegDefsEnd ==
  /\ def_pc = "defs"
  /\ def_pc' = "rules"
  /\ UNCHANGED <<defs, def_hist>>
  /\ UNCHANGED <<rt_vars, gen_vars, rd_vars, cache_vars>>

\* consume_token_actions parses the regex of a rule.
ConsumeRuleRegex ==
  /\ def_pc = "rules"
  /\ \E text \in RegexTexts :
       /\ def_hist' = def_hist \cup lookups_of(text, defs, NULL, "")
       /\ def_pc' = IF consume_regex_expr(text, defs).k = "unresolved"
                    THEN "failed" ELSE "parsed"
  /\ UNCHANGED defs
  /\ UNCHANGED <<rt_vars, gen_vars, rd_vars, cache_vars>>

DefNext ==
  \/ ConsumeRegDef
  \/ ConsumeRegDefsEnd
  \/ ConsumeRuleRegex

SpecDefs == DefInit /\ [][DefNext]_vars

\* ------------------------------------------------------ the spec reader
\* Longest host-code segment and longest action body of a generator input.
MaxHost == 3
MaxAction == 2

\* The bytes host code and action bodies are made of: '%', 'a', '\n', and
\* '}' in actions.
HostBytes == {37, 97, NL}
ActionBytes == {37, 125, 97, NL}
SeqsUpTo(S, n) == UNION {[1..k -> S] : k \in 0..n}

\* "%%"
Delimiter == <<37, 37>>
\* "emit_main"
emit_main == <<101, 109, 105, 116, 95, 109, 97, 105, 110>>

\* <host code> %% <instructions> %% <regex defs> %% <rules> %% <host code>
File(lead, instructions, reg_defs, rules, trail) ==
  lead \o Delimiter \o instructions \o Delimiter \o reg_defs \o Delimiter
    \o rules \o Delimiter \o trail

\* Instruction segments: "", " ", "emit_main", "\nemit_main ", "a", "%\n".
InstructionSegs ==
  {<<>>, <<32>>, emit_main, <<NL>> \o emit_main \o <<32>>, <<97>>, <<37, NL>>}
\* Regex-defs segments: "", "a a\n", "a\naa a a", "%a", "a ".
RegDefSegs ==
  {<<>>, <<97, 32, 97, NL>>, <<97, NL, 97, 97, 32, 97, 32, 97>>, <<37, 97>>,
   <<97, 32>>}
\* Rules segments: one rule "a %{<body>%}" for every action body, and
\*   "%{a%}\na %{%}"        a named parser,
\*   "a %{%}\n%{ a %}a %{a%}"  an unnamed parser, then a named one,
\*   "%\n%{%}"              a regex that starts with '%', then a newline,
\*   "%a %{%}"              a regex that starts with '%',
\*   "a %a"                 a rule without action.
RuleSegs ==
  {<<97, 32, 37, 123>> \o body \o <<37, 125>> :
     body \in SeqsUpTo(ActionBytes, MaxAction)}
  \cup {<<37, 123, 97, 37, 125, NL, 97, 32, 37, 123, 37, 125>>,
        <<97, 32, 37, 123, 37, 125, NL, 37, 123, 32, 97, 32, 37, 125, 97, 32,
          37, 123, 97, 37, 125>>,
        <<37, NL, 37, 123, 37, 125>>,
        <<37, 97, 32, 37, 123, 37, 125>>,
        <<97, 32, 37, 97>>}

\* The input files: one segment varies, the others are empty; and every
\* file cut short at any byte.
Files ==
  {File(s, <<>>, <<>>, <<>>, <<>>) : s \in SeqsUpTo(HostBytes, MaxHost)}
  \cup {File(<<>>, s, <<>>, <<>>, <<>>) : s \in InstructionSegs}
  \cup {File(<<>>, <<>>, s, <<>>, <<>>) : s \in RegDefSegs}
  \cup {File(<<>>, <<>>, <<>>, s, <<>>) : s \in RuleSegs}
  \cup {File(<<>>, <<>>, <<>>, <<>>, s) : s \in SeqsUpTo(HostBytes, MaxHost)}
RdInputs == UNION {{SubSeq(f, 1, n) : n \in 0..Len(f)} : f \in Files}

\* getc(stdin): rd_pos counts the bytes delivered, the end of file included.
get_next_input_char ==
  IF rd_pos < Len(rd_input) THEN rd_input[rd_pos + 1] ELSE EOF

\* The position in the input of the byte peek_next returns.
PeekIndex == IF has_undo_char THEN rd_pos - 1 ELSE rd_pos

KeepReader ==
  UNCHANGED <<rd_pos, next_char, col, ln, just_consumed_nl, has_undo_char,
              undo_char_, rd_returned>>

undo_char(ch) ==
  /\ has_undo_char' = TRUE
  /\ undo_char_' = next_char
  /\ next_char' = ch
  /\ col' = col - 1
  /\ rd_returned' = Append(rd_returned, [op |-> "undo_char", ch |-> ch,
                                          at |-> PeekIndex,
                                          pending |-> has_undo_char])
  /\ UNCHANGED <<rd_pos, ln, just_consumed_nl>>

consume_next ==
  LET nc == IF has_undo_char THEN undo_char_ ELSE get_next_input_char
  IN /\ rd_returned' = Append(rd_returned, [op |-> "consume_next",
                                             ch |-> next_char,
                                             at |-> PeekIndex,
                                             pending |-> has_undo_char])
     /\ next_char' = nc
     /\ has_undo_char' = FALSE
     /\ rd_pos' = IF has_undo_char \/ rd_pos > Len(rd_input)
                  THEN rd_pos ELSE rd_pos + 1
     /\ UNCHANGED undo_char_
     /\ IF nc = EOF
        THEN UNCHANGED <<ln, col, just_consumed_nl>>
        ELSE /\ ln' = IF just_consumed_nl THEN ln + 1 ELSE ln
             /\ just_consumed_nl' = (nc = NL)
             /\ col' = (IF just_consumed_nl THEN 0 ELSE col) + 1

next_is_whitespace == next_char \in {NL, 13, 9, 32}
is_end(ch) == ch \in {EOF, NL, 13, 9, 0, 32}
\* 'a' ... 'z', 'A' ... 'Z', '0' ... '9', '_'
is_name_char(ch) == ch \in (97..122) \cup (65..90) \cup (48..57) \cup {95}

\* Control: a jump inside a function, a call, a return, and reject (errx).
Goto(label) ==
  /\ rd_pc' = label
  /\ UNCHANGED <<rd_stack, rd_ret, rd_diag>>
Call(label, back) ==
  /\ rd_pc' = label
  /\ rd_stack' = <<back>> \o rd_stack
  /\ UNCHANGED <<rd_ret, rd_diag>>
Return(value) ==
  /\ rd_pc' = Head(rd_stack)
  /\ rd_stack' = Tail(rd_stack)
  /\ rd_ret' = value
  /\ UNCHANGED rd_diag
reject(err) ==
  /\ rd_pc' = "failed"
  /\ rd_diag' = [ln |-> ln, col |-> col, err |-> err]
  /\ UNCHANGED <<rd_stack, rd_ret>>

KeepData == UNCHANGED <<rd_local, rd_out, rd_hist>>
\* What no function of the reader changes.
RdFrame == UNCHANGED <<rd_input, rt_vars, gen_vars, cache_vars>>

\* fputc(ch, out_file) while the segment seg is copied.
fputc(ch, seg) == rd_out' = Append(rd_out, [seg |-> seg, ch |-> ch])

\* main has parsed its arguments; the statics have their initial values.
RdInit ==
  /\ rd_input \in RdInputs
  /\ rd_pos = 0
  /\ next_char = EOF
  /\ col = 0
  /\ ln = 1
  /\ just_consumed_nl = FALSE
  /\ has_undo_char = FALSE
  /\ undo_char_ = 0
  /\ rd_returned = <<>>
  /\ rd_pc = "main"
  /\ rd_stack = <<>>
  /\ rd_ret = 0
  /\ rd_local = LocalsInit
  /\ rd_out = <<>>
  /\ rd_diag = [ln |-> 0, col |-> 0, err |-> ""]
  /\ rd_hist = RdHistInit
  /\ RtOff
  /\ GenOff
  /\ DefOff
  /\ CacheOff

\* main: the first consume_next, then consume_c(0); after the parser loop
\* the template is printed and consume_c(1) copies the trailing host code.
main ==
  /\ \/ /\ rd_pc = "main"
        /\ consume_next
        /\ Call("consume_c", "consume_instructions")
        /\ rd_local' = [rd_local EXCEPT !.expect_eof = FALSE]
        /\ UNCHANGED <<rd_out, rd_hist>>
     \/ /\ rd_pc = "main_loop"
        /\ KeepReader
        /\ IF rd_ret = 1
           THEN /\ Goto("consume_token_actions")
                /\ rd_local' = [rd_local EXCEPT !.parser_idx = @ + 1]
                /\ UNCHANGED <<rd_out, rd_hist>>
           ELSE /\ Call("consume_c", "done")
                /\ rd_local' = [rd_local EXCEPT !.parser_idx = @ + 1,
                                                !.expect_eof = TRUE]
                /\ rd_hist' = [rd_hist EXCEPT !.trail_at = PeekIndex]
                /\ UNCHANGED rd_out
  /\ UNCHANGED def_vars
  /\ RdFrame

consume_c ==
  /\ \/ /\ rd_pc = "consume_c"
        /\ IF next_char = EOF
           THEN /\ KeepReader
                /\ IF rd_local.expect_eof THEN Return(rd_ret)
                   ELSE reject("unexpected EOF")
                /\ UNCHANGED rd_out
           ELSE IF next_char = 37
           THEN /\ consume_next
                /\ Goto("consume_c_percent")
                /\ UNCHANGED rd_out
           ELSE /\ consume_next
                /\ fputc(next_char, IF rd_local.expect_eof THEN "trail" ELSE "lead")
                /\ Goto("consume_c")
     \/ /\ rd_pc = "consume_c_percent"
        /\ IF next_char = 37
           THEN /\ consume_next
                /\ Return(rd_ret)
                /\ UNCHANGED rd_out
           ELSE /\ KeepReader
                /\ fputc(37, IF rd_local.expect_eof THEN "trail" ELSE "lead")
                /\ Goto("consume_c")
  /\ UNCHANGED <<rd_local, rd_hist>>
  /\ UNCHANGED def_vars
  /\ RdFrame

consume_whitespace ==
  /\ rd_pc = "consume_whitespace"
  /\ IF next_is_whitespace
     THEN consume_next /\ Goto("consume_whitespace")
     ELSE KeepReader /\ Return(rd_ret)
  /\ KeepData
  /\ UNCHANGED def_vars
  /\ RdFrame

consume_name ==
  /\ \/ /\ rd_pc = "consume_name"
        /\ KeepReader
        /\ rd_local' = [rd_local EXCEPT !.name = <<>>]
        /\ Goto("consume_name_loop")
     \/ /\ rd_pc = "consume_name_loop"
        /\ IF is_name_char(next_char)
           THEN /\ consume_next
                /\ rd_local' = [rd_local EXCEPT !.name = Append(@, next_char)]
                /\ Goto("consume_name_loop")
           ELSE /\ KeepReader
                /\ UNCHANGED rd_local
                /\ IF Len(rd_local.name) <= 0 THEN reject("expected name")
                   ELSE Return(rd_ret)
  /\ UNCHANGED <<rd_out, rd_hist>>
  /\ UNCHANGED def_vars
  /\ RdFrame

\* The call of a lookahead helper as an observer sees it, and its return.
HelperCalled(fn) ==
  rd_hist' = [rd_hist EXCEPT !.helpers =
    Append(@, [fn |-> fn, ch |-> next_char, at |-> PeekIndex,
               calls |-> Len(rd_returned), returned |-> FALSE, ret |-> 0,
               ch_after |-> next_char, at_after |-> PeekIndex])]
HelperReturned ==
  rd_hist' = [rd_hist EXCEPT !.helpers[Len(rd_hist.helpers)] =
    [@ EXCEPT !.returned = TRUE, !.ret = rd_ret',
              !.ch_after = next_char', !.at_after = PeekIndex']]

try_consume_delimiter ==
  /\ \/ /\ rd_pc = "try_consume_delimiter"
        /\ IF next_char = 37
           THEN /\ consume_next
                /\ Goto("try_consume_delimiter_second")
                /\ HelperCalled("try_consume_delimiter")
           ELSE /\ KeepReader
                /\ Return(0)
                /\ rd_hist' = [rd_hist EXCEPT !.helpers =
                     Append(@, [fn |-> "try_consume_delimiter",
                                ch |-> next_char, at |-> PeekIndex,
                                calls |-> Len(rd_returned),
                                returned |-> TRUE, ret |-> 0,
                                ch_after |-> next_char, at_after |-> PeekIndex])]
     \/ /\ rd_pc = "try_consume_delimiter_second"
        /\ IF next_char = 37
           THEN consume_next /\ Return(1)
           ELSE undo_char(37) /\ Return(0)
        /\ HelperReturned
  /\ UNCHANGED <<rd_local, rd_out>>
  /\ UNCHANGED def_vars
  /\ RdFrame

next_is_parser_name ==
  /\ \/ /\ rd_pc = "next_is_parser_name"
        /\ IF next_char = 37
           THEN /\ consume_next
                /\ Goto("next_is_parser_name_second")
                /\ HelperCalled("next_is_parser_name")
           ELSE /\ KeepReader
                /\ Return(0)
                /\ rd_hist' = [rd_hist EXCEPT !.helpers =
                     Append(@, [fn |-> "next_is_parser_name",
                                ch |-> next_char, at |-> PeekIndex,
                                calls |-> Len(rd_returned),
                                returned |-> TRUE, ret |-> 0,
                                ch_after |-> next_char, at_after |-> PeekIndex])]
     \/ /\ rd_pc = "next_is_parser_name_second"
        /\ undo_char(37)
        /\ Return(IF next_char = 123 THEN 1 ELSE 0)
        /\ HelperReturned
  /\ UNCHANGED <<rd_local, rd_out>>
  /\ UNCHANGED def_vars
  /\ RdFrame

try_consume_parser_name ==
  /\ \/ /\ rd_pc = "try_consume_parser_name"
        /\ IF next_char = 37
           THEN consume_next /\ Goto("try_consume_parser_name_second")
           ELSE KeepReader /\ Return(0)
     \/ /\ rd_pc = "try_consume_parser_name_second"
        /\ IF next_char = 123
           THEN /\ consume_next
                /\ Call("consume_whitespace", "try_consume_parser_name_name")
           ELSE undo_char(37) /\ Return(0)
     \/ /\ rd_pc = "try_consume_parser_name_name"
        /\ KeepReader
        /\ Call("consume_name", "try_consume_parser_name_space")
     \/ /\ rd_pc = "try_consume_parser_name_space"
        /\ KeepReader
        /\ Call("consume_whitespace", "try_consume_parser_name_percent")
     \/ /\ rd_pc = "try_consume_parser_name_percent"
        /\ IF next_char # 37
           THEN KeepReader /\ reject("expected '%}' after parser name")
           ELSE consume_next /\ Goto("try_consume_parser_name_brace")
     \/ /\ rd_pc = "try_consume_parser_name_brace"
        /\ IF next_char # 125
           THEN KeepReader /\ reject("expected '%}' after parser name")
           ELSE consume_next /\ Return(1)
  /\ KeepData
  /\ UNCHANGED def_vars
  /\ RdFrame

consume_instructions ==
  /\ \/ /\ rd_pc = "consume_instructions"
        /\ Call("consume_whitespace", "consume_instructions_delimiter")
        /\ UNCHANGED rd_local
     \/ /\ rd_pc = "consume_instructions_delimiter"
        /\ Call("try_consume_delimiter", "consume_instructions_name")
        /\ UNCHANGED rd_local
     \/ /\ rd_pc = "consume_instructions_name"
        /\ IF rd_ret = 1
           THEN Goto("consume_reg_defs")
           ELSE Call("consume_name", "consume_instructions_strcmp")
        /\ UNCHANGED rd_local
     \/ /\ rd_pc = "consume_instructions_strcmp"
        /\ IF rd_local.name = emit_main
           THEN /\ rd_local' = [rd_local EXCEPT !.flags = 1]
                /\ Goto("consume_instructions")
           ELSE /\ reject("invalid instruction")
                /\ UNCHANGED rd_local
  /\ KeepReader
  /\ UNCHANGED <<rd_out, rd_hist>>
  /\ UNCHANGED def_vars
  /\ RdFrame

\* The regex parser reads the regex through peek_next and consume_next up
\* to the first byte is_end holds for; a regex without bytes is an error.
regex_parser ==
  /\ \/ /\ rd_pc = "consume_regex_expr"
        /\ IF is_end(next_char)
           THEN /\ KeepReader
                /\ reject("regex")
                /\ UNCHANGED rd_local
           ELSE /\ consume_next
                /\ rd_local' = [rd_local EXCEPT !.regex = <<next_char>>]
                /\ Goto("consume_regex_expr_loop")
     \/ /\ rd_pc = "consume_regex_expr_loop"
        /\ IF is_end(next_char)
           THEN /\ KeepReader
                /\ Return(rd_ret)
                /\ UNCHANGED rd_local
           ELSE /\ consume_next
                /\ rd_local' = [rd_local EXCEPT !.regex = Append(@, next_char)]
                /\ Goto("consume_regex_expr_loop")
  /\ UNCHANGED <<rd_out, rd_hist>>
  /\ UNCHANGED def_vars
  /\ RdFrame

consume_reg_defs ==
  /\ \/ /\ rd_pc = "consume_reg_defs"
        /\ Call("consume_whitespace", "consume_reg_defs_delimiter")
        /\ UNCHANGED <<rd_out, defs>>
     \/ /\ rd_pc = "consume_reg_defs_delimiter"
        /\ Call("try_consume_delimiter", "consume_reg_defs_name")
        /\ UNCHANGED <<rd_out, defs>>
     \/ /\ rd_pc = "consume_reg_defs_name"
        /\ IF rd_ret = 1
           THEN /\ fputc(NL, "reg_defs")
                /\ Goto("consume_token_actions")
           ELSE /\ Call("consume_name", "consume_reg_defs_space")
                /\ UNCHANGED rd_out
        /\ UNCHANGED defs
     \/ /\ rd_pc = "consume_reg_defs_space"
        /\ Call("consume_whitespace", "consume_reg_defs_regex")
        /\ UNCHANGED <<rd_out, defs>>
     \/ /\ rd_pc = "consume_reg_defs_regex"
        /\ Call("consume_regex_expr", "consume_reg_defs_link")
        /\ UNCHANGED <<rd_out, defs>>
     \/ /\ rd_pc = "consume_reg_defs_link"
        /\ defs' = <<[name |-> rd_local.name, ast |-> rd_local.regex,
                      id |-> Len(defs) + 1]>> \o defs
        /\ Goto("consume_reg_defs")
        /\ UNCHANGED rd_out
  /\ KeepReader
  /\ UNCHANGED <<rd_local, rd_hist>>
  /\ UNCHANGED <<def_pc, def_hist>>
  /\ RdFrame

\* consume_action that skipped the byte after a '%' it kept.
consume_action_skipping ==
  /\ \/ /\ rd_pc = "consume_action"
        /\ IF next_char # 37
           THEN KeepReader /\ reject("expected action (starts with '%{)")
           ELSE consume_next /\ Goto("consume_action_brace")
        /\ rd_hist' = [rd_hist EXCEPT !.action_calls =
                         Append(@, [at |-> PeekIndex, returned |-> FALSE,
                                    action |-> <<>>, after |-> 0])]
        /\ UNCHANGED rd_local
     \/ /\ rd_pc = "consume_action_brace"
        /\ IF next_char # 123
           THEN KeepReader /\ reject("expected action (starts with '%{)")
           ELSE consume_next /\ Goto("consume_action_loop")
        /\ rd_local' = [rd_local EXCEPT !.action = <<>>]
        /\ UNCHANGED rd_hist
     \/ /\ rd_pc = "consume_action_loop"
        /\ IF next_char = EOF
           THEN /\ KeepReader
                /\ reject("unexpected EOF")
                /\ UNCHANGED rd_local
           ELSE IF next_char = 37
           THEN /\ consume_next
                /\ Goto("consume_action_percent")
                /\ UNCHANGED rd_local
           ELSE /\ consume_next
                /\ rd_local' = [rd_local EXCEPT !.action = Append(@, next_char)]
                /\ Goto("consume_action_loop")
        /\ UNCHANGED rd_hist
     \/ /\ rd_pc = "consume_action_percent"
        /\ IF next_char = 125
           THEN /\ consume_next
                /\ Return(rd_ret)
                /\ UNCHANGED rd_local
                /\ rd_hist' = [rd_hist EXCEPT
                     !.action_calls[Len(rd_hist.action_calls)] =
                        [@ EXCEPT !.returned = TRUE, !.action = rd_local.action,
                                  !.after = PeekIndex']]
           ELSE /\ consume_next
                /\ rd_local' = [rd_local EXCEPT !.action = Append(@, 37)]
                /\ Goto("consume_action_loop")
                /\ UNCHANGED rd_hist
  /\ UNCHANGED rd_out
  /\ UNCHANGED def_vars
  /\ RdFrame
consume_action ==
  /\ \/ /\ rd_pc = "consume_action"
        /\ IF next_char # 37
           THEN KeepReader /\ reject("expected action (starts with '%{)")
           ELSE consume_next /\ Goto("consume_action_brace")
        /\ rd_hist' = [rd_hist EXCEPT !.action_calls =
                         Append(@, [at |-> PeekIndex, returned |-> FALSE,
                                    action |-> <<>>, after |-> 0])]
        /\ UNCHANGED rd_local
     \/ /\ rd_pc = "consume_action_brace"
        /\ IF next_char # 123
           THEN KeepReader /\ reject("expected action (starts with '%{)")
           ELSE consume_next /\ Goto("consume_action_loop")
        /\ rd_local' = [rd_local EXCEPT !.action = <<>>]
        /\ UNCHANGED rd_hist
     \/ /\ rd_pc = "consume_action_loop"
        /\ IF next_char = EOF
           THEN /\ KeepReader
                /\ reject("unexpected EOF")
                /\ UNCHANGED rd_local
           ELSE IF next_char = 37
           THEN /\ consume_next
                /\ Goto("consume_action_percent")
                /\ UNCHANGED rd_local
           ELSE /\ consume_next
                /\ rd_local' = [rd_local EXCEPT !.action = Append(@, next_char)]
                /\ Goto("consume_action_loop")
        /\ UNCHANGED rd_hist
     \/ /\ rd_pc = "consume_action_percent"
        /\ IF next_char = 125
           THEN /\ consume_next
                /\ Return(rd_ret)
                /\ UNCHANGED rd_local
                /\ rd_hist' = [rd_hist EXCEPT
                     !.action_calls[Len(rd_hist.action_calls)] =
                        [@ EXCEPT !.returned = TRUE, !.action = rd_local.action,
                                  !.after = PeekIndex']]
           ELSE /\ KeepReader
                /\ rd_local' = [rd_local EXCEPT !.action = Append(@, 37)]
                /\ Goto("consume_action_loop")
                /\ UNCHANGED rd_hist
  /\ UNCHANGED rd_out
  /\ UNCHANGED def_vars
  /\ RdFrame

consume_token_actions_reader ==
  /\ \/ /\ rd_pc = "consume_token_actions"
        /\ rd_local' = [rd_local EXCEPT !.tag_ctr = 0, !.found_name = 0]
        /\ Call("consume_whitespace", "consume_token_actions_name")
        /\ UNCHANGED rd_hist
     \/ /\ rd_pc = "consume_token_actions_name"
        /\ Call("try_consume_parser_name", "consume_token_actions_found")
        /\ UNCHANGED <<rd_local, rd_hist>>
     \/ /\ rd_pc = "consume_token_actions_found"
        /\ rd_local' = [rd_local EXCEPT !.found_name = rd_ret]
        /\ Call("consume_whitespace", "consume_token_actions_delimiter")
        /\ UNCHANGED rd_hist
     \/ /\ rd_pc = "consume_token_actions_loop"
        /\ Call("consume_whitespace", "consume_token_actions_delimiter")
        /\ UNCHANGED <<rd_local, rd_hist>>
     \/ /\ rd_pc = "consume_token_actions_delimiter"
        /\ Call("try_consume_delimiter", "consume_token_actions_marker")
        /\ UNCHANGED <<rd_local, rd_hist>>
     \/ /\ rd_pc = "consume_token_actions_marker"
        /\ IF rd_ret = 1
           THEN /\ rd_pc' = "main_loop"
                /\ rd_ret' = 0
                /\ UNCHANGED <<rd_stack, rd_diag>>
           ELSE Call("next_is_parser_name", "consume_token_actions_regex")
        /\ UNCHANGED <<rd_local, rd_hist>>
     \/ /\ rd_pc = "consume_token_actions_regex"
        /\ IF rd_ret = 1
           THEN /\ rd_pc' = "main_loop"
                /\ rd_ret' = 1
                /\ UNCHANGED <<rd_stack, rd_diag>>
           ELSE Call("consume_regex_expr", "consume_token_actions_space")
        /\ UNCHANGED <<rd_local, rd_hist>>
     \/ /\ rd_pc = "consume_token_actions_space"
        /\ Call("consume_whitespace", "consume_token_actions_action")
        /\ UNCHANGED <<rd_local, rd_hist>>
     \/ /\ rd_pc = "consume_token_actions_action"
        /\ Call("consume_action", "consume_token_actions_link")
        /\ UNCHANGED <<rd_local, rd_hist>>
     \/ /\ rd_pc = "consume_token_actions_link"
        /\ rd_hist' = [rd_hist EXCEPT !.rules =
                         Append(@, [token |-> rd_local.regex,
                                    action |-> rd_local.action,
                                    tag |-> rd_local.tag_ctr,
                                    parser_idx |-> rd_local.parser_idx])]
        /\ rd_local' = [rd_local EXCEPT !.tag_ctr = @ + 1]
        /\ Goto("consume_token_actions_loop")
  /\ KeepReader
  /\ UNCHANGED rd_out
  /\ UNCHANGED def_vars
  /\ RdFrame

RdNext ==
  \/ main
  \/ consume_c
  \/ consume_whitespace
  \/ consume_name
  \/ try_consume_delimiter
  \/ next_is_parser_name
  \/ try_consume_parser_name
  \/ consume_instructions
  \/ consume_reg_defs
  \/ regex_parser
  \/ consume_action
  \/ consume_token_actions_reader

SpecRead == RdInit /\ [][RdNext]_vars

\* ===================================================== the draft runtime
\* src/lexer_template.c: next reads stdin through the char_cache ring buffer.

\* Most calls of next on one stream.
MaxPush == 66
\* The capacity push gives the cache when it grows from capacity 0.
InitialCapacity == 64

\* The streams stdin can hold: the empty one, on which fgetc returns EOF
\* every time, and MaxPush bytes that repeat "a", "ab" or "b\na".
CachePatterns == {<<97>>, <<97, 98>>, <<98, NL, 97>>}
CacheStreams ==
  {<<>>} \cup
  {[i \in 1..MaxPush |-> pat[((i - 1) % Len(pat)) + 1]] : pat \in CachePatterns}

\* fgetc(stdin)
cache_fgetc ==
  IF cache_read < Len(cache_stdin) THEN cache_stdin[cache_read + 1] ELSE EOF

\* The first half of push: when the cache is full the capacity becomes 64 or
\* doubles.  The buffer of the new capacity is new_data, into which the
\* memcpy calls copy; no statement stores new_data in char_cache.data, so
\* data, start and end are what they were and new_data is lost at return.
push_grow(cc) ==
  IF cc.size >= cc.cap
  THEN [cc EXCEPT !.cap = IF cc.cap = 0 THEN InitialCapacity ELSE cc.cap * 2]
  ELSE cc

\* push(c): grow, count the item, store it at data[end], advance end and
\* set ptr.  data is the null pointer, so the store is undefined: either it
\* faults and the process ends inside push, or address 0 is mapped and the
\* int lands end ints behind it.
push(ch) ==
  LET counted == [push_grow(char_cache) EXCEPT !.size = @ + 1]
      stored == [i \in DOMAIN cache_mem \cup {counted.end} |->
                   IF i = counted.end THEN ch ELSE cache_mem[i]]
      moved == [counted EXCEPT !.end = (counted.end + 1) % counted.cap,
                               !.ptr = (counted.end + 1) % counted.cap]
      returns == /\ cache_mem' = stored
                 /\ char_cache' = moved
                 /\ cache_pushed' = Append(cache_pushed, ch)
                 /\ cache_pc' = "ready"
      faults == /\ char_cache' = counted
                /\ cache_pc' = "crashed"
                /\ UNCHANGED <<cache_mem, cache_pushed>>
  IN IF char_cache.data = NULL THEN faults \/ returns ELSE returns

\* read(): the next unread item (next calls it with remaining > 0 only).
read ==
  /\ char_cache' = [char_cache EXCEPT !.remaining = @ - 1,
                                      !.ptr = (@ + 1) % char_cache.cap]
  /\ UNCHANGED <<cache_mem, cache_pushed, cache_pc>>

CacheInit ==
  /\ cache_pc = "ready"
  /\ cache_stdin \in CacheStreams
  /\ cache_read = 0
  /\ char_cache = char_cache_zero
  /\ cache_mem = [i \in {} |-> 0]
  /\ cache_pushed = <<>>
  /\ RtOff
  /\ GenOff
  /\ DefOff
  /\ RdOff

\* next(): an unread item of the cache if there is one, else the next byte
\* of stdin, which is pushed.
next ==
  /\ cache_pc = "ready"
  /\ Len(cache_pushed) < MaxPush
  /\ IF char_cache.remaining > 0
     THEN read /\ UNCHANGED cache_read
     ELSE /\ cache_read' =
               IF cache_read < Len(cache_stdin) THEN cache_read + 1
               ELSE cache_read
          /\ push(cache_fgetc)
  /\ UNCHANGED cache_stdin
  /\ UNCHANGED <<rt_vars, gen_vars, def_vars, rd_vars>>

CacheNext == next

SpecCache == CacheInit /\ [][CacheNext]_vars

\* ================================================================ claims
RECURSIVE Flatten(_)
Flatten(seqs) == IF seqs = <<>> THEN <<>> ELSE Head(seqs) \o Flatten(Tail(seqs))

\* The lexemes dispatched so far and the number of input bytes they cover.
Lexemes == [i \in 1..Len(hist.tokens) |-> hist.tokens[i].lexeme]
Consumed == Len(Flatten(Lexemes))

\* The input that is not tokenised yet.
Rest == SubSeq(input, Consumed + 1, Len(input))

\* The rules of the running sub-lexer as the rules section lists them.
ActiveRules == Sections[section][spec_of(matcher_fn).idx + 1].rules
RuleAccepts(k, w) == w \in RegexLang(ActiveRules[k].token, LangLen)
SomeRuleAccepts(w) == \E k \in 1..Len(ActiveRules) : RuleAccepts(k, w)

\* The true 1-based line and column of the i-th input byte; a newline is the
\* last column of its line.
TrueLoc(i) ==
  LET nls == {j \in 1..(i - 1) : input[j] = NL}
      last == IF nls = {} THEN 0 ELSE CHOOSE j \in nls : \A m \in nls : m <= j
  IN <<1 + Cardinality(nls), i - last>>

LexLE(p, q) == p[1] < q[1] \/ (p[1] = q[1] /\ p[2] <= q[2])

InMatcher == pc \in {"next", "accept", "reject", "action"}

\* C1 -- Maximal munch: when an action is dispatched, the lexeme is the
\* longest prefix of the not yet tokenised input that a rule of the running
\* sub-lexer accepts.
C1_MaximalMunch ==
  pc = "action" =>
    LET lex == bytes_of(reglex_lexem_str)
    IN /\ Len(lex) <= Len(Rest)
       /\ lex = SubSeq(Rest, 1, Len(lex))
       /\ SomeRuleAccepts(lex)
       /\ \A n \in (Len(lex) + 1)..Len(Rest) : ~SomeRuleAccepts(SubSeq(Rest, 1, n))

\* C2 -- Rewind fidelity: between calls the dispatched lexemes, the lookahead
\* buffer and the unread stream make up the input, and the first byte next()
\* returns after a dispatch is the input byte that follows the lexeme.
C2_RewindFidelity ==
  /\ pc \in {"idle", "return"} =>
       Flatten(Lexemes) \o bytes_of(reglex_read_ahead)
         \o SubSeq(input, stream_pos + 1, Len(input)) = input
  /\ (/\ InMatcher
      /\ hist.tokens # <<>>
      /\ reglex_parse_result = Running
      /\ hist.returned # <<>>)
     => hist.returned[1] = IF Consumed < Len(input) THEN input[Consumed + 1] ELSE EOF

\* C3 -- First rule wins: the action that runs belongs to the first rule, in
\* source order, that accepts the dispatched lexeme, and the checkpoint tag
\* is that rule's tag.
C3_FirstRuleWins ==
  pc = "action" =>
    LET lex == bytes_of(reglex_lexem_str)
        act == action_of(matcher_fn, reglex_checkpoint_tag)
    IN /\ act.blk = spec_of(matcher_fn).idx
       /\ act.k = reglex_checkpoint_tag
       /\ RuleAccepts(act.k + 1, lex)
       /\ \A j \in 1..act.k : ~RuleAccepts(j, lex)

C3_Witness ==
  /\ pc = "action"
  /\ reglex_checkpoint_tag = 0
  /\ Cardinality({k \in 1..Len(ActiveRules) :
                    RuleAccepts(k, bytes_of(reglex_lexem_str))}) >= 2
  /\ Len(hist.tokens) >= 1

\* C4 -- When an action runs, the lexeme holds exactly the input bytes from
\* the previous token boundary up to the byte at which accept was last called
\* in this call.
C4_LexemeExact ==
  pc = "action" =>
    /\ hist.accepts >= 1
    /\ bytes_of(reglex_lexem_str) =
         SubSeq(input, Consumed + 1, Consumed + hist.accept_at)

C4_Witness ==
  /\ pc = "action"
  /\ Len(hist.tokens) >= 1
  /\ hist.accept_at >= 1
  /\ Len(hist.returned) >= hist.accept_at + 1
  /\ hist.returned[Len(hist.returned)] # EOF

\* C5 -- reglex_parse returns 0 exactly when the reject routine was entered
\* with no checkpoint and an empty lookahead buffer, and then the lexemes
\* make up the whole input; 1 exactly when it was entered with no checkpoint
\* and a non-empty buffer; never -1.
C5_ParseResult ==
  \A i \in 1..Len(hist.parse_rets) :
    LET r == hist.parse_rets[i]
    IN /\ r.ret \in {0, 1}
       /\ r.tag = NoTag
       /\ (r.ret = 0) <=> (r.len = 0)
       /\ (r.ret = 0) <=> (Flatten(Lexemes) = input /\ stream_pos = Len(input))

C5_Witness ==
  /\ Len(hist.parse_rets) >= 2
  /\ hist.parse_rets[1].ret = 0
  /\ Len(hist.tokens) >= 2

C8_EmptyRejectedBeforeEmission ==
  /\ gen_pc = "done" =>
       \A i \in 1..Len(specs) : end_tag(automaton_of(specs[i].ast_list), <<>>) = -1
  /\ gen_pc = "failed" =>
       /\ diag = "no token expressions may accept an empty string"
       /\ \A i \in 1..Len(out_file) : out_file[i].kind \notin {"matcher", "template"}

\* C9 -- The token start location recorded by every reglex_parse_token call
\* is lexicographically at least the one recorded by the call before.
C9_LocationMonotonic ==
  \A i \in 1..Len(hist.call_locs) : \A j \in 1..Len(hist.call_locs) :
    i < j => LexLE(hist.call_locs[i], hist.call_locs[j])

\* C10 -- When an action runs, (reglex_ln(), reglex_col()) is the true line
\* and column of the lexeme's first byte; after reset-to-checkpoint the
\* current location is the one recorded at the last accept, which is the true
\* location of the last byte of the last lexeme.
C10_LocationExact ==
  /\ pc = "action" =>
       <<reglex_lexem_start_loc.ln, reglex_lexem_start_loc.col>>
         = TrueLoc(Consumed + 1)
  /\ (pc = "return" /\ hist.tokens # <<>>) =>
       /\ reglex_curr_loc = hist.accept_loc
       /\ <<reglex_curr_loc.ln, reglex_curr_loc.col>> = TrueLoc(Consumed)
       /\ reglex_curr_loc.eol = IF input[Consumed] = NL THEN 1 ELSE 0

C10_Witness ==
  /\ pc = "action"
  /\ Len(hist.tokens) >= 1
  /\ reglex_lexem_start_loc.ln >= 2
  /\ Len(hist.pending) >= 2
  /\ hist.accept_at >= 1

\* C18 -- A call that dispatches an action consumes at least one byte, and
\* one run of reglex_parse makes at most one call of reglex_parse_token more
\* than the input has bytes: after that many calls its result is terminal.
C18_Progress ==
  /\ \A i \in 1..Len(hist.tokens) : Len(hist.tokens[i].lexeme) >= 1
  /\ in_parse => hist.calls_in_parse <= Len(input) + 1
  /\ (in_parse /\ pc = "return" /\ hist.calls_in_parse = Len(input) + 1) =>
       reglex_parse_result \in {0, 1}

C18_Witness ==
  /\ in_parse
  /\ pc = "return"
  /\ Len(input) = MaxLen
  /\ hist.calls_in_parse = Len(input) + 1
  /\ Len(hist.tokens) = Len(input)
  /\ reglex_parse_result = 0

\* C19 -- When a reject function leaves the result 1, every byte read and not
\* dispatched is in the lookahead buffer, the cursor is at the buffer's
\* length, the checkpoint tag is none and the lexeme is empty; every later
\* call dispatches no action, leaves the statics as they were and leaves the
\* result 1.
C19_ErrorFixedPoint ==
  \A i \in 1..Len(hist.ends) :
    LET e == hist.ends[i]
    IN e.statics.parse_result = 1 =>
         /\ e.statics.checkpoint_tag = NoTag
         /\ e.statics.lexem_str = <<>>
         /\ e.statics.read_ahead_ptr = Len(e.statics.read_ahead)
         /\ Flatten([k \in 1..e.tokens |-> hist.tokens[k].lexeme])
               \o bytes_of(e.statics.read_ahead)
              = SubSeq(input, 1, e.statics.stream_pos)
         /\ \A j \in 1..Len(hist.ends) :
              j > i => /\ hist.ends[j].fn = e.fn
                       /\ hist.ends[j].tokens = e.tokens
                       /\ hist.ends[j].statics.parse_result = 1
                       /\ hist.ends[j].statics = e.statics

\* C20 -- The lookahead cursor stays within the buffer; right after
\* reglex_accept it equals the buffer's length; when reglex_parse_token has
\* returned, the checkpoint tag is none, the lexeme is empty and the cursor
\* equals the buffer's length.
C20_CursorInvariant ==
  /\ 0 <= reglex_read_ahead_ptr
  /\ reglex_read_ahead_ptr <= Len(reglex_read_ahead)
  /\ (pc = "next" /\ hist.accepts >= 1 /\ hist.accept_at = Len(hist.returned)) =>
       reglex_read_ahead_ptr = Len(reglex_read_ahead)
  /\ (pc = "return" \/ (pc = "idle" /\ hist.n_calls >= 1)) =>
       /\ reglex_checkpoint_tag = NoTag
       /\ reglex_lexem_str = <<>>
       /\ reglex_read_ahead_ptr = Len(reglex_read_ahead)

C20_Witness ==
  /\ pc = "next"
  /\ hist.accepts >= 1
  /\ hist.accept_at = Len(hist.returned)
  /\ reglex_read_ahead_ptr >= 1
  /\ Len(hist.tokens) >= 1

\* C12 -- In every parser_spec the generator builds, the rules of the block
\* carry the tags 0, 1, ... in source order, the k-th AST of the list handed
\* to the automaton construction is the k-th rule's regex, and the action
\* printed under `case k` is the k-th rule's action.
C12_TagAssignment ==
  \A i \in 1..Len(specs) :
    LET src == gen_read[specs[i].idx + 1].rules
        cases == print_token_actions(specs[i].tal)
    IN /\ Len(specs[i].ast_list) = Len(src)
       /\ Len(cases) = Len(src)
       /\ \A k \in 1..Len(src) :
            /\ specs[i].ast_list[k] = src[k].token
            /\ Cardinality({n \in 1..Len(cases) : cases[n].tag = k - 1}) = 1
            /\ \A n \in 1..Len(cases) :
                 cases[n].tag = k - 1 => cases[n].action = src[k].action

C12_Witness ==
  /\ gen_pc = "done"
  /\ Len(specs) >= 2
  /\ \A i \in 1..Len(specs) : Len(specs[i].ast_list) >= 3

\* C13 -- Of the parser specs built for a rules section exactly one has
\* is_default set, and it is the one of the first block; the name written
\* into the initial matcher pointer is that block's unique name, never the
\* empty name of the internal error.
C13_DefaultParser ==
  /\ specs # <<>> =>
       /\ Cardinality({i \in 1..Len(specs) : specs[i].is_default}) = 1
       /\ specs[Len(specs)].is_default
       /\ specs[Len(specs)].idx = 0
       /\ specs[Len(specs)].name = gen_read[1].marker
  /\ \A n \in 1..Len(out_file) :
       out_file[n].kind = "switching" =>
         /\ out_file[n].name # ""
         /\ out_file[n].name = specs[Len(specs)].unique_name

C13_Witness ==
  /\ gen_pc = "done"
  /\ Len(specs) >= 2
  /\ gen_read[1].marker # ""
  /\ gen_read[1].rules = <<>>
  /\ \E n \in 1..Len(out_file) : out_file[n].kind = "switching"

\* C11 -- get_definition returns the definition added last among those with
\* the name, NULL when there is none; and the definition a lookup returned
\* is still in the table with the AST it had then, whatever was defined
\* after the lookup.
C11_DefinitionShadowing ==
  /\ \A n \in DefNames :
       LET ids == {defs[i].id : i \in {j \in 1..Len(defs) : defs[j].name = n}}
       IN get_definition(defs, n) =
            IF ids = {} THEN NULL ELSE CHOOSE d \in ids : \A e \in ids : e <= d
  /\ \A l \in def_hist :
       LET ids == {defs[i].id : i \in {j \in 1..Len(defs) :
                      defs[j].name = l.name /\ defs[j].id <= l.size}}
       IN /\ l.def = IF ids = {} THEN NULL
                     ELSE CHOOSE d \in ids : \A e \in ids : e <= d
          /\ l.def # NULL =>
               \E i \in 1..Len(defs) :
                 /\ defs[i].id = l.def
                 /\ defs[i].name = l.name
                 /\ defs[i].ast = l.ast

C11_Witness ==
  \E l \in def_hist :
    /\ l.def # NULL
    /\ \E i \in 1..Len(defs) :
         /\ defs[i].name = l.name
         /\ defs[i].id > l.size
         /\ defs[i].ast # l.ast
    /\ get_definition(defs, l.name) # l.def

RECURSIVE refs_of(_)
\* The definitions the reference nodes of an AST point into.
refs_of(ast) ==
  CASE ast.k = "ref" -> {ast.def}
    [] ast.k = "cat" -> refs_of(ast.l) \cup refs_of(ast.r)
    [] ast.k = "star" -> refs_of(ast.a)
    [] OTHER -> {}

RECURSIVE reached_from(_, _)
\* The definitions reached from the set ds by following references n times.
reached_from(ds, n) ==
  IF n = 0 THEN {}
  ELSE LET step == UNION {refs_of(ast_at(defs, d)) : d \in ds}
       IN step \cup reached_from(step, n - 1)

\* C16 -- No definition of the table refers to itself, directly or through
\* other definitions: every reference points into a definition added
\* strictly earlier; an identifier equal to the name being defined resolved
\* to an earlier definition of that name or was not resolved at all.
C16_NoCyclicDefinitions ==
  /\ \A i \in 1..Len(defs) :
       /\ defs[i].id \notin reached_from({defs[i].id}, Len(defs))
       /\ \A r \in refs_of(defs[i].ast) : 1 <= r /\ r < defs[i].id
  /\ \A l \in def_hist :
       (l.owner # NULL /\ l.name = l.owner_name) =>
         \/ l.def = NULL
         \/ /\ l.def < l.owner
            /\ \E i \in 1..Len(defs) :
                 defs[i].id = l.def /\ defs[i].name = l.owner_name

C16_Witness ==
  /\ def_pc = "defs"
  /\ \E i \in 1..Len(defs) :
       /\ defs[i].ast.k = "star"
       /\ defs[i].ast.a.k = "ref"
       /\ defs[i].ast.a.name = defs[i].name
       /\ reached_from({defs[i].id}, Len(defs)) # {}
       /\ \E l \in def_hist :
            l.owner = defs[i].id /\ l.name = l.owner_name /\ l.def # NULL

\* The bytes the reader wrote to out_file while it copied the segment seg.
OutOf(seg) ==
  LET part == SelectSeq(rd_out, LAMBDA o : o.seg = seg)
  IN [i \in 1..Len(part) |-> part[i].ch]

\* The first position from `from` on where the input holds '%' followed by
\* the byte second; 0 when there is none.
FirstPairAt(from, second) ==
  LET at == {i \in from..(Len(rd_input) - 1) :
               rd_input[i] = 37 /\ rd_input[i + 1] = second}
  IN IF at = {} THEN 0 ELSE CHOOSE i \in at : \A j \in at : i <= j

\* consume_c(0) has returned.
LeadCopied ==
  /\ rd_pc # "main"
  /\ \A i \in 1..Len(rd_stack) : rd_stack[i] # "consume_instructions"

\* C14 -- Once the leading host code is copied, the bytes written for it are
\* the input bytes before the first "%%"; when main is done, the bytes
\* written for the trailing host code are all input bytes from the byte
\* after the delimiter that ended the rules to the end of the input.
C14_HostCodePassthrough ==
  /\ LeadCopied =>
       /\ FirstPairAt(1, 37) # 0
       /\ OutOf("lead") = SubSeq(rd_input, 1, FirstPairAt(1, 37) - 1)
  /\ rd_pc = "done" =>
       OutOf("trail") = SubSeq(rd_input, rd_hist.trail_at, Len(rd_input))

\* C15 -- A consume_action call made where the input holds "%{" returns the
\* bytes between that "%{" and the first "%}" after it and leaves the reader
\* behind that "%}"; when no "%}" follows, it returns nothing and the
\* reader fails with "unexpected EOF".
C15_ActionBody ==
  \A k \in 1..Len(rd_hist.action_calls) :
    LET call == rd_hist.action_calls[k]
        close == FirstPairAt(call.at + 2, 125)
    IN (/\ call.at + 1 <= Len(rd_input)
        /\ rd_input[call.at] = 37
        /\ rd_input[call.at + 1] = 123) =>
         /\ call.returned =>
              /\ close # 0
              /\ call.action = SubSeq(rd_input, call.at + 2, close - 1)
              /\ call.after = close + 2
         /\ close = 0 =>
              /\ ~call.returned
              /\ rd_pc # "done"
              /\ rd_pc = "failed" =>
                   /\ rd_diag.err = "unexpected EOF"
                   /\ rd_diag.ln >= 1

C15_Witness ==
  \E k \in 1..Len(rd_hist.action_calls) :
    /\ rd_hist.action_calls[k].returned
    /\ Len(rd_hist.action_calls[k].action) = MaxAction
    /\ rd_hist.action_calls[k].action[1] = 37

\* The line and the column of the i-th byte of the input file.
RdTrueLoc(i) ==
  LET nls == {j \in 1..(i - 1) : rd_input[j] = NL}
      last == IF nls = {} THEN 0 ELSE CHOOSE j \in nls : \A m \in nls : m <= j
  IN <<1 + Cardinality(nls), i - last>>

\* C17 -- Whenever the reader peeks a byte, ln is 1 plus the number of
\* newlines before that byte and col is the byte's column on its line.
C17_PositionTracking ==
  next_char # EOF => <<ln, col>> = RdTrueLoc(PeekIndex)

\* The byte of the input file at position i, EOF behind the last one.
ByteAt(i) == IF 1 <= i /\ i <= Len(rd_input) THEN rd_input[i] ELSE EOF

\* The bytes consume_next returned, without the ones it returned a second
\* time after undo_char and without the EOFs.
FreshBytes ==
  LET fresh == SelectSeq(rd_returned,
                 LAMBDA e : e.op = "consume_next" /\ ~e.pending /\ e.ch # EOF)
  IN [i \in 1..Len(fresh) |-> fresh[i].ch]

\* C21 -- undo_char is never called while a pushed-back byte is pending;
\* the bytes consume_next returns, the re-delivered ones left out, are the
\* bytes of the input in order, all of them once main is done; when
\* try_consume_delimiter or next_is_parser_name has returned 0, the byte
\* peeked is the one peeked at the call, and every consume_next returns the
\* input byte at the position the calls before it left the reader at.
C21_PushbackLosesNothing ==
  /\ \A i \in 1..Len(rd_returned) :
       rd_returned[i].op = "undo_char" => ~rd_returned[i].pending
  /\ FreshBytes = SubSeq(rd_input, 1, Len(FreshBytes))
  /\ rd_pc = "done" => FreshBytes = rd_input
  /\ \A k \in 1..Len(rd_hist.helpers) :
       LET h == rd_hist.helpers[k]
       IN (h.returned /\ h.ret = 0) =>
            /\ h.ch_after = h.ch
            /\ h.at_after = h.at
            /\ h.ch = ByteAt(h.at)
  /\ next_char = ByteAt(PeekIndex)
  /\ \A i \in 1..Len(rd_returned) :
       /\ rd_returned[i].op = "consume_next" =>
            rd_returned[i].ch = ByteAt(rd_returned[i].at)
       /\ i < Len(rd_returned) =>
            rd_returned[i + 1].at =
              IF rd_returned[i].op = "undo_char" THEN rd_returned[i].at - 1
              ELSE IF rd_returned[i].at > Len(rd_input) THEN rd_returned[i].at
              ELSE rd_returned[i].at + 1

\* The function names main has written into the output so far.
EmittedMatchers ==
  SelectSeq(out_file, LAMBDA o : o.kind = "matcher")

\* C22 -- the unique_name values of the parser specs main has created are
\* pairwise distinct, so no two emitted matchers carry the same function
\* name and every name switch_parser can be given belongs to one block
\* only.
C22_UniqueParserNames ==
  /\ \A i, j \in 1..Len(specs) :
       i # j => specs[i].unique_name # specs[j].unique_name
  /\ \A i, j \in 1..Len(EmittedMatchers) :
       i # j => EmittedMatchers[i].name # EmittedMatchers[j].name
  /\ \A i, j \in 1..Len(specs) :
       (i # j /\ specs[i].is_named /\ specs[j].is_named)
         => specs[i].name # specs[j].name

\* The item the cache holds at offset i from start, 0 when no int was ever
\* stored at that index.
CacheItem(i) ==
  LET at == (char_cache.start + i) % char_cache.cap
  IN IF at \in DOMAIN cache_mem THEN <<cache_mem[at]>> ELSE <<>>

\* C23 -- after the push calls that returned, size <= cap, end is
\* (start + size) mod cap, and the size items stored from start, wrapping
\* at cap, are the pushed values in push order.
C23_RingBuffer ==
  cache_pc = "ready" =>
    /\ char_cache.size <= char_cache.cap
    /\ char_cache.size = Len(cache_pushed)
    /\ char_cache.cap > 0 =>
         /\ char_cache.end =
              (char_cache.start + char_cache.size) % char_cache.cap
         /\ \A i \in 1..char_cache.size :
              CacheItem(i - 1) = <<cache_pushed[i]>>

====
